---- MODULE Spec2Model ----
(***************************************************************************)
(* A model of the buffer compactor of parkerroan/buffercompact             *)
(* (src/buffercompact.go): a badger key-value store fronted by an          *)
(* in-memory sorted set, with StoreToQueue (Enqueue), RetrieveFromQueue    *)
(* (Dequeue), RemoveFromDB and PopulateSetFromDB (recovery).               *)
(*                                                                         *)
(* Time is counted in ticks, TicksPerSec of them to the second, because    *)
(* the code turns a time.Time into a score with Unix(), which truncates.   *)
(* Byte strings (payloads, unique ids, stored values) are sequences of     *)
(* numbers 0..255; store keys are strings.                                 *)
(*                                                                         *)
(* A call is a sequence of steps of one thread.  A step is one access to   *)
(* shared state (one sorted-set method call, one badger transaction), so   *)
(* that the interleavings the missing lock of StoreToQueue allows are the  *)
(* behaviours of the model.                                                *)
(***************************************************************************)
EXTENDS Integers, Sequences, FiniteSets, TLC

\* ------------------------------------------------------------------ bounds
TicksPerSec == 2
BufferTicks == 2
MaxTime == 4
ConcMaxTime == 2
MaxLimit == 2
MaxCount == 1
MaxCalls == 4
TTLTicks == 2

Threads == {"t1", "t2"}
NoThread == "none"

\* user keys, in lexicographic order, followed by the store keys of their markers
UserKeys == <<"a", "b">>
DedupeKeyPrefix(k) == "unique_value:" \o k
KeyOrder == UserKeys \o [i \in 1..Len(UserKeys) |-> DedupeKeyPrefix(UserKeys[i])]
Keys == {UserKeys[i] : i \in 1..Len(UserKeys)}
StoreKeys == {KeyOrder[i] : i \in 1..Len(KeyOrder)}

Payloads == {<<>>, <<7>>}
NoUniqueID == <<>>
UniqueIDs == {NoUniqueID, <<1>>, <<2, 0, 0, 0, 0, 0, 0, 0>>}

\* ------------------------------------------------------------------ codec
ScoreLen == 8

RECURSIVE LittleEndian(_, _)
\* n bytes of the non-negative number v, least significant first
LittleEndian(v, n) ==
    IF n = 0 THEN <<>> ELSE <<v % 256>> \o LittleEndian(v \div 256, n - 1)

\* an encoding that loses the sign
PutUint64Abs(score) == LittleEndian(IF score >= 0 THEN score ELSE -score, ScoreLen)

\* binary.LittleEndian.PutUint64(b, uint64(score)): two's complement for score < 0
PutUint64(score) ==
    IF score >= 0
    THEN LittleEndian(score, ScoreLen)
    ELSE [i \in 1..ScoreLen |-> 255 - LittleEndian(-score - 1, ScoreLen)[i]]

RECURSIVE FromLittleEndian(_)
FromLittleEndian(bytes) ==
    IF bytes = <<>> THEN 0 ELSE bytes[1] + 256 * FromLittleEndian(Tail(bytes))

\* int64(binary.LittleEndian.Uint64(b))
Uint64(bytes) ==
    IF bytes[ScoreLen] < 128
    THEN FromLittleEndian(bytes)
    ELSE -FromLittleEndian([i \in 1..ScoreLen |-> 255 - bytes[i]]) - 1

appendScoreBytes(input, score) == input \o PutUint64(score)

\* value[len(value)-8:] panics when the value is shorter than 8 bytes
removeScoreBytesPanics(value) == Len(value) < ScoreLen

removeScoreBytes(value) ==
    [score |-> Uint64(SubSeq(value, Len(value) - ScoreLen + 1, Len(value))),
     value |-> SubSeq(value, 1, Len(value) - ScoreLen)]

\* ------------------------------------------------------------------ sorted set
\* The sortedset package: a set of nodes [key, score], one per key, ordered by
\* score and then by key.
KeyRank(k) == CHOOSE i \in 1..Len(KeyOrder) : KeyOrder[i] = k

NodeLess(x, y) ==
    \/ x.score < y.score
    \/ x.score = y.score /\ KeyRank(x.key) < KeyRank(y.key)

RECURSIVE SortNodes(_)
SortNodes(S) ==
    IF S = {} THEN <<>>
    ELSE LET m == CHOOSE x \in S : \A y \in S \ {x} : NodeLess(x, y)
         IN  <<m>> \o SortNodes(S \ {m})

Min(x, y) == IF x < y THEN x ELSE y

GetCount(set) == Cardinality(set)

GetByKey(set, key) == {n \in set : n.key = key}

AddOrUpdate(set, key, score) ==
    {n \in set : n.key # key} \cup {[key |-> key, score |-> score]}

\* the nodes at the 1-based ranks start..end, end clamped to the count
GetByRankRange(set, start, end) ==
    SubSeq(SortNodes(set), start, Min(end, GetCount(set)))

\* up to limit nodes with a score in [start, end], in ascending order
GetByScoreRange(set, start, end, limit) ==
    LET inRange == SortNodes({n \in set : start <= n.score /\ n.score <= end})
    IN  SubSeq(inRange, 1, Min(limit, Len(inRange)))

Range(seq) == {seq[i] : i \in 1..Len(seq)}

\* ------------------------------------------------------------------ state
VARIABLES
    now,             \* the wall clock, in ticks
    db,              \* badger: store key -> stored value
    sortedSet,       \* b.sortedSet: a set of nodes [key, score]
    mu,              \* b.mu: the thread that holds it, or NoThread
    maxValuesCount,  \* b.maxValuesCount (0: no limit)
    call,            \* per thread: where its call stands (pc) and the call's locals
    ret,             \* the call that returned last, and what it returned
    calls,           \* the number of calls begun
    enqueued,        \* history: key -> what was enqueued for it since its last release
    inserted,        \* history: key of a node -> the clock of the call that added it
    seen,            \* history, per thread: what its call met
    ttlDuration,     \* b.ttlDuration, in ticks (0: nil)
    dedupeDuration,  \* b.dedupeDuration, in ticks (0: nil)
    expiresAt,       \* badger: store key -> Unix second at which its entry expires
    options          \* history: the durations of the options New was given

vars == <<now, db, sortedSet, mu, maxValuesCount, call, ret, calls, enqueued, inserted,
          seen, ttlDuration, dedupeDuration, expiresAt, options>>

NoItem == [key |-> "", value |-> <<>>, uid |-> NoUniqueID, score |-> 0]

\* A thread outside any call.  Inside one: item is the StorageItem of StoreToQueue,
\* clock the time.Now() it read, deduped whether its transaction took the dedupe
\* exit; limit is the argument of RetrieveFromQueue, overflow whether it took the
\* max-count branch, nodes what it selected, response the items it has read so far.
Idle == [pc |-> "idle", item |-> NoItem, clock |-> 0, deduped |-> FALSE,
         limit |-> 0, overflow |-> FALSE, nodes |-> <<>>, response |-> <<>>]

\* What is remembered of a key since it was last released: value, the payload of
\* the last StoreToQueue that wrote it; n, how many StoreToQueue succeeded (2: two
\* or more); plain, none of them had a unique id; admitted, none took the dedupe
\* exit; refreshed, one of them replaced a marker that held another unique id;
\* stored, one of them wrote the store; at, the clock of the first of them; wrote,
\* the clock of the last of them that wrote the store.
NoEntry == [value |-> <<>>, n |-> 0, plain |-> TRUE, admitted |-> TRUE,
            refreshed |-> FALSE, stored |-> FALSE, at |-> -1, wrote |-> -1]

\* What is remembered of a call: for RetrieveFromQueue, count is the size of the
\* sorted set when it selected, first the inserted[k] of each selected node (-1:
\* none), last the enqueued[k] of each item it read, owed the keys it has to
\* return when it is a call after quiescence (ok), stale the selected keys that a
\* StoreToQueue has put into the sorted set again since, during the keys of the
\* StoreToQueue calls that were in progress at some time of the call.
NoSeen == [count |-> 0, first |-> <<>>, last |-> <<>>,
           owed |-> [ok |-> FALSE, keys |-> {}], stale |-> {}, during |-> {}]

NoRet == [op |-> "none", err |-> "nil", items |-> <<>>, at |-> 0,
          of |-> Idle, seen |-> NoSeen]

\* time.Time.Unix(): whole seconds, truncated
Unix(t) == t \div TicksPerSec

\* New without WithTTL and WithDedupeDuration
NoOptions == [ttl |-> 0, dedupe |-> 0]

Init ==
    /\ now = 0
    /\ db = << >>
    /\ sortedSet = {}
    /\ mu = NoThread
    /\ maxValuesCount \in {0, MaxCount}
    /\ call = [t \in Threads |-> Idle]
    /\ ret = NoRet
    /\ calls = 0
    /\ enqueued = << >>
    /\ inserted = << >>
    /\ seen = [t \in Threads |-> NoSeen]
    /\ ttlDuration = 0
    /\ dedupeDuration = 0
    /\ expiresAt = << >>
    /\ options = NoOptions

\* a panic ends the process
Alive == ret.err # "panic"

Quiescent == \A t \in Threads : call[t].pc = "idle"

\* badger: the entries of the store d that have not expired at clock c, e being
\* their expiry seconds (an entry is expired once ExpiresAt <= time.Now().Unix())
Live(d, e, c) ==
    [k \in {x \in DOMAIN d : x \notin DOMAIN e \/ e[x] > Unix(c)} |-> d[k]]

\* the clock advances, up to max; entries whose expiry second has come are gone
Tick(max) ==
    /\ now < max
    /\ now' = now + 1
    /\ db' = Live(db, expiresAt, now + 1)
    /\ expiresAt' = [k \in DOMAIN expiresAt \cap DOMAIN Live(db, expiresAt, now + 1) |->
                        expiresAt[k]]
    /\ UNCHANGED <<sortedSet, mu, maxValuesCount, ttlDuration, dedupeDuration, options,
                   call, ret, calls, enqueued, inserted, seen>>

\* ------------------------------------------------------------------ badger
\* txn.SetEntry(badger.NewEntry(key, value)) on the transaction's view d
SetEntry(d, key, value) ==
    [k \in DOMAIN d \cup {key} |-> IF k = key THEN value ELSE d[k]]

\* txn.Delete(key)
Delete(d, key) == [k \in DOMAIN d \ {key} |-> d[k]]

\* ------------------------------------------------------------------ StoreToQueue
\* a gate that lets one more item in
MaxValueCountExceeded(set, max) == max # 0 /\ GetCount(set) > max

\* the gate of StoreToQueue: the max value count is reached
MaxValueCountReached(set, max) == max # 0 /\ GetCount(set) >= max

\* thread t returns from its call c
Return(t, op, err, items, c, g) ==
    /\ call' = [call EXCEPT ![t] = Idle]
    /\ ret' = [op |-> op, err |-> err, items |-> items, at |-> now,
               of |-> [c EXCEPT !.pc = "idle"], seen |-> g]

\* thread t goes on to the step at in its call, with the locals of c
Goto(t, at, c) ==
    /\ call' = [call EXCEPT ![t] = [c EXCEPT !.pc = at]]
    /\ UNCHANGED ret

\* thread t begins a call
Begin(t) ==
    /\ Alive
    /\ call[t].pc = "idle"
    /\ calls < MaxCalls
    /\ calls' = calls + 1

\* an item whose score is the time of the call, without the buffer duration
NewItemNoBuffer(key, value, uid, clock) ==
    [key |-> key, value |-> value, uid |-> uid, score |-> Unix(clock)]

\* item.score = time.Now().Add(b.bufferDuration).Unix()
NewItem(key, value, uid, clock) ==
    [key |-> key, value |-> value, uid |-> uid, score |-> Unix(clock + BufferTicks)]

\* StoreToQueue, up to the transaction: the gate, and the score
StoreToQueueBegin(t, key, value, uid) ==
    /\ Begin(t)
    /\ LET c == [Idle EXCEPT !.item = NewItem(key, value, uid, now), !.clock = now]
       IN  IF MaxValueCountReached(sortedSet, maxValuesCount)
           THEN Return(t, "enq", "ErrMaxValueCount", <<>>, c, NoSeen)
           ELSE /\ call' = [call EXCEPT ![t] = [c EXCEPT !.pc = "enq_txn"]]
                /\ ret' = NoRet
    /\ seen' = [u \in Threads |->
                  IF u = t THEN NoSeen
                  ELSE IF call[u].pc \in {"deq_pop", "deq_rm"}
                  THEN [seen[u] EXCEPT !.during = @ \cup {key}]
                  ELSE seen[u]]
    /\ UNCHANGED <<now, db, expiresAt, sortedSet, mu, maxValuesCount, ttlDuration, dedupeDuration, options, enqueued, inserted>>

\* the dedupe exit: the marker of the key holds the unique id of the item
Deduped(d, it) ==
    /\ it.uid # NoUniqueID
    /\ DedupeKeyPrefix(it.key) \in DOMAIN d
    /\ d[DedupeKeyPrefix(it.key)] = it.uid

\* a closure that keeps the entry a key already has
StoreTxnKeepFirst(d, it) ==
    LET main(x) == IF it.key \in DOMAIN x
                   THEN x
                   ELSE SetEntry(x, it.key, appendScoreBytes(it.value, it.score))
    IN  IF it.uid # NoUniqueID
        THEN IF Deduped(d, it)
             THEN d
             ELSE main(SetEntry(d, DedupeKeyPrefix(it.key), it.uid))
        ELSE main(d)

\* a closure that writes no marker
StoreTxnNoMarker(d, it) ==
    IF Deduped(d, it)
    THEN d
    ELSE SetEntry(d, it.key, appendScoreBytes(it.value, it.score))

\* the closure StoreToQueue hands to db.Update, applied to the store d
StoreTxn(d, it) ==
    LET main(x) == SetEntry(x, it.key, appendScoreBytes(it.value, it.score))
    IN  IF it.uid # NoUniqueID
        THEN IF Deduped(d, it)
             THEN d
             ELSE main(SetEntry(d, DedupeKeyPrefix(it.key), it.uid))
        ELSE main(d)

\* entry.WithTTL(dur) when the duration pointer is not nil (dur # 0), at clock c:
\* the expiry second of key in e; an entry set without it has none
EntryWithTTL(e, key, dur, c) ==
    IF dur # 0 THEN SetEntry(e, key, Unix(c + dur)) ELSE Delete(e, key)

\* the expiry seconds after the closure of StoreToQueue has run on the store d at
\* clock c: the marker takes b.dedupeDuration, the main entry b.ttlDuration
StoreTxnTTL(e, d, it, c) ==
    LET main(x) == EntryWithTTL(x, it.key, ttlDuration, c)
    IN  IF it.uid # NoUniqueID
        THEN IF Deduped(d, it)
             THEN e
             ELSE main(EntryWithTTL(e, DedupeKeyPrefix(it.key), dedupeDuration, c))
        ELSE main(e)

\* enqueued after the transaction of the call c
Enqueue(e, d, c) ==
    LET k == c.item.key
        old == IF k \in DOMAIN e THEN e[k] ELSE [NoEntry EXCEPT !.at = c.clock]
        new == [old EXCEPT !.n = Min(@ + 1, 2),
                           !.plain = @ /\ c.item.uid = NoUniqueID,
                           !.at = Min(@, c.clock)]
        marker == DedupeKeyPrefix(k)
    IN  IF Deduped(d, c.item)
        THEN SetEntry(e, k, [new EXCEPT !.admitted = FALSE])
        ELSE SetEntry(e, k, [new EXCEPT
                 !.stored = TRUE,
                 !.wrote = c.clock,
                 !.value = c.item.value,
                 !.refreshed = @ \/ (c.item.uid # NoUniqueID /\ marker \in DOMAIN d)])

\* db.Update commits
StoreToQueueTxn(t) ==
    /\ Alive
    /\ call[t].pc = "enq_txn"
    /\ db' = StoreTxn(db, call[t].item)
    /\ expiresAt' = StoreTxnTTL(expiresAt, db, call[t].item, now)
    /\ enqueued' = Enqueue(enqueued, db, call[t])
    /\ Goto(t, "enq_get", [call[t] EXCEPT !.deduped = Deduped(db, call[t].item)])
    /\ UNCHANGED <<now, sortedSet, mu, maxValuesCount, ttlDuration, dedupeDuration, options, calls, inserted, seen>>

\* a failed transaction that leaves the marker it had set in the store
StoreTxnFailedMarkerKept(d, it) ==
    IF it.uid # NoUniqueID /\ ~Deduped(d, it)
    THEN SetEntry(d, DedupeKeyPrefix(it.key), it.uid)
    ELSE d

\* the store after db.Update returns an error: the transaction is discarded
StoreTxnFailed(d, it) == d

\* db.Update fails (txn.SetEntry or the commit returns an error): return err
StoreToQueueTxnFails(t) ==
    /\ Alive
    /\ call[t].pc = "enq_txn"
    /\ db' = StoreTxnFailed(db, call[t].item)
    /\ Return(t, "enq", "StoreError", <<>>, call[t], NoSeen)
    /\ UNCHANGED <<now, expiresAt, sortedSet, mu, maxValuesCount, ttlDuration, dedupeDuration, options, calls, enqueued, inserted, seen>>

\* b.sortedSet.GetByKey(item.Key)
StoreToQueueGet(t) ==
    /\ Alive
    /\ call[t].pc = "enq_get"
    /\ IF GetByKey(sortedSet, call[t].item.key) = {}
       THEN Goto(t, "enq_add", call[t])
       ELSE Return(t, "enq", "nil", <<>>, call[t], NoSeen)
    /\ UNCHANGED <<now, db, expiresAt, sortedSet, mu, maxValuesCount, ttlDuration, dedupeDuration, options, calls, enqueued, inserted, seen>>

\* b.sortedSet.AddOrUpdate(item.Key, score, struct{}{})
StoreToQueueAdd(t) ==
    /\ Alive
    /\ call[t].pc = "enq_add"
    /\ sortedSet' = AddOrUpdate(sortedSet, call[t].item.key, call[t].item.score)
    /\ Return(t, "enq", "nil", <<>>, call[t], NoSeen)
    /\ seen' = [u \in Threads |->
                  IF call[u].pc = "deq_rm"
                     /\ \E n \in Range(call[u].nodes) : n.key = call[t].item.key
                  THEN [seen[u] EXCEPT !.stale = @ \cup {call[t].item.key}]
                  ELSE seen[u]]
    /\ inserted' = SetEntry(inserted, call[t].item.key, call[t].clock)
    /\ UNCHANGED <<now, db, expiresAt, mu, maxValuesCount, ttlDuration, dedupeDuration, options, calls, enqueued>>

\* ------------------------------------------------------------------ RetrieveFromQueue
\* the branch of RetrieveFromQueue: the max set length is hit
MaxSetLengthHit(set, max) == max # 0 /\ GetCount(set) >= max

\* the keys with an entry that was stored
Owed(e) == {k \in DOMAIN e : e[k].stored}

\* b.mu.Lock() and the choice of the branch
RetrieveFromQueueBegin(t, lim) ==
    /\ Begin(t)
    /\ mu = NoThread
    /\ mu' = t
    /\ call' = [call EXCEPT ![t] =
                  [Idle EXCEPT !.pc = "deq_pop", !.limit = lim,
                       !.overflow = MaxSetLengthHit(sortedSet, maxValuesCount)]]
    /\ seen' = [seen EXCEPT ![t] =
                  [NoSeen EXCEPT
                     !.owed =
                       [ok |-> /\ Quiescent
                               /\ ret.op # "none"
                               /\ now >= ret.at + BufferTicks
                               /\ lim >= Cardinality(Owed(enqueued)),
                        keys |-> Owed(enqueued)],
                     !.during =
                       {call[u].item.key :
                            u \in {v \in Threads :
                                      call[v].pc \in {"enq_txn", "enq_get", "enq_add"}}}]]
    /\ ret' = NoRet
    /\ UNCHANGED <<now, db, expiresAt, sortedSet, maxValuesCount, ttlDuration, dedupeDuration, options, enqueued, inserted>>

\* the keys of a sequence of nodes or items
KeysOf(seq) == {seq[i].key : i \in 1..Len(seq)}

\* a selection that never looks at the clock
SelectNodesByRank(set, over, lim, clock) == GetByRankRange(set, 1, lim)

\* a selection handed on in descending order
SelectNodesReversed(set, over, lim, clock) ==
    LET sel == IF over
               THEN GetByRankRange(set, 1, lim)
               ELSE GetByScoreRange(set, -1, Unix(clock), lim)
    IN  [i \in 1..Len(sel) |-> sel[Len(sel) + 1 - i]]

\* a selection that takes a limit of 0 for no limit
SelectNodesNoLimit(set, over, lim, clock) ==
    LET n == IF lim = 0 THEN GetCount(set) ELSE lim
    IN  IF over
        THEN GetByRankRange(set, 1, n)
        ELSE GetByScoreRange(set, -1, Unix(clock), n)

\* the nodes RetrieveFromQueue takes out of the sorted set
SelectNodes(set, over, lim, clock) ==
    IF over
    THEN GetByRankRange(set, 1, lim)
    ELSE GetByScoreRange(set, -1, Unix(clock), lim)

\* a selection that leaves the nodes in the sorted set
RetrieveFromQueuePopKeep(t) ==
    /\ Alive
    /\ call[t].pc = "deq_pop"
    /\ LET sel == SelectNodes(sortedSet, call[t].overflow, call[t].limit, now)
           c == [call[t] EXCEPT !.nodes = sel, !.clock = now]
           g == [seen[t] EXCEPT
                   !.count = GetCount(sortedSet),
                   !.first = [i \in 1..Len(sel) |->
                                IF sel[i].key \in DOMAIN inserted
                                THEN inserted[sel[i].key] ELSE -1]]
       IN  IF sel = <<>>
           THEN /\ Return(t, "deq", "nil", <<>>, c, g)
                /\ seen' = [seen EXCEPT ![t] = NoSeen]
           ELSE /\ Goto(t, "deq_rm", c)
                /\ seen' = [seen EXCEPT ![t] = g]
    /\ mu' = NoThread
    /\ UNCHANGED <<now, db, expiresAt, sortedSet, maxValuesCount, ttlDuration, dedupeDuration, options, calls, enqueued, inserted>>

\* GetByRankRange or GetByScoreRange, removing, and b.mu.Unlock()
RetrieveFromQueuePop(t) ==
    /\ Alive
    /\ call[t].pc = "deq_pop"
    /\ LET sel == SelectNodes(sortedSet, call[t].overflow, call[t].limit, now)
           c == [call[t] EXCEPT !.nodes = sel, !.clock = now]
           g == [seen[t] EXCEPT
                   !.count = GetCount(sortedSet),
                   !.first = [i \in 1..Len(sel) |->
                                IF sel[i].key \in DOMAIN inserted
                                THEN inserted[sel[i].key] ELSE -1]]
       IN  /\ sortedSet' = sortedSet \ Range(sel)
           /\ inserted' = [k \in DOMAIN inserted \ KeysOf(sel) |-> inserted[k]]
           /\ IF sel = <<>>
              THEN /\ Return(t, "deq", "nil", <<>>, c, g)
                   /\ seen' = [seen EXCEPT ![t] = NoSeen]
              ELSE /\ Goto(t, "deq_rm", c)
                   /\ seen' = [seen EXCEPT ![t] = g]
    /\ mu' = NoThread
    /\ UNCHANGED <<now, db, expiresAt, maxValuesCount, ttlDuration, dedupeDuration, options, calls, enqueued>>

\* a RemoveFromDB that reads and does not delete
RemoveFromDBKeep(d, key) ==
    IF key \notin DOMAIN d
    THEN [err |-> "ErrKeyNotFound", db |-> d, item |-> NoItem]
    ELSE IF removeScoreBytesPanics(d[key])
    THEN [err |-> "panic", db |-> d, item |-> NoItem]
    ELSE [err |-> "nil", db |-> d,
          item |-> [key |-> key, value |-> removeScoreBytes(d[key]).value,
                    uid |-> NoUniqueID, score |-> removeScoreBytes(d[key]).score]]

\* RemoveFromDB(key) on the store d: the error, the store after it, the item
RemoveFromDB(d, key) ==
    IF key \notin DOMAIN d
    THEN [err |-> "ErrKeyNotFound", db |-> d, item |-> NoItem]
    ELSE IF removeScoreBytesPanics(d[key])
    THEN [err |-> "panic", db |-> Delete(d, key), item |-> NoItem]
    ELSE [err |-> "nil", db |-> Delete(d, key),
          item |-> [key |-> key, value |-> removeScoreBytes(d[key]).value,
                    uid |-> NoUniqueID, score |-> removeScoreBytes(d[key]).score]]

\* enqueued when a RetrieveFromQueue fails at key: what it had read is owed again
Restore(e, key, c, g) ==
    LET back == {i \in 1..Len(c.response) :
                    c.response[i].key \notin DOMAIN e /\ g.last[i].n > 0}
        keep == {k \in DOMAIN e : k # key \/ e[k].stored}
    IN  [k \in keep \cup {c.response[i].key : i \in back} |->
            IF k \in keep THEN e[k]
            ELSE g.last[CHOOSE i \in back : c.response[i].key = k]]

\* one round of the loop of RetrieveFromQueue: RemoveFromDB of the next node
RetrieveFromQueueRemove(t) ==
    /\ Alive
    /\ call[t].pc = "deq_rm"
    /\ LET key == call[t].nodes[Len(call[t].response) + 1].key
           r == RemoveFromDB(db, key)
           c == [call[t] EXCEPT !.response = Append(@, r.item)]
           g == [seen[t] EXCEPT !.last =
                   Append(@, IF key \in DOMAIN enqueued THEN enqueued[key] ELSE NoEntry)]
       IN  /\ db' = r.db
           /\ expiresAt' = [k \in DOMAIN expiresAt \cap DOMAIN r.db |-> expiresAt[k]]
           /\ IF r.err # "nil"
              THEN /\ Return(t, "deq", r.err, <<>>, call[t], seen[t])
                   /\ seen' = [seen EXCEPT ![t] = NoSeen]
                   /\ enqueued' = Restore(enqueued, key, call[t], seen[t])
              ELSE /\ enqueued' = Delete(enqueued, key)
                   /\ IF Len(c.response) = Len(c.nodes)
                      THEN /\ Return(t, "deq", "nil", c.response, c, g)
                           /\ seen' = [seen EXCEPT ![t] = NoSeen]
                      ELSE /\ Goto(t, "deq_rm", c)
                           /\ seen' = [seen EXCEPT ![t] = g]
    /\ UNCHANGED <<now, sortedSet, mu, maxValuesCount, ttlDuration, dedupeDuration, options, calls, inserted>>

\* RemoveFromDB(key) when txn.Get, txn.Delete or txn.Commit returns an error of the
\* store: the deferred txn.Discard drops the transaction
RemoveFromDBFailed(d, key) == [err |-> "StoreError", db |-> d, item |-> NoItem]

\* one round of the loop of RetrieveFromQueue in which RemoveFromDB fails:
\* return nil, err
RetrieveFromQueueRemoveFails(t) ==
    /\ Alive
    /\ call[t].pc = "deq_rm"
    /\ LET key == call[t].nodes[Len(call[t].response) + 1].key
           r == RemoveFromDBFailed(db, key)
       IN  /\ db' = r.db
           /\ expiresAt' = [k \in DOMAIN expiresAt \cap DOMAIN r.db |-> expiresAt[k]]
           /\ Return(t, "deq", r.err, <<>>, call[t], seen[t])
           /\ seen' = [seen EXCEPT ![t] = NoSeen]
           /\ enqueued' = Restore(enqueued, key, call[t], seen[t])
    /\ UNCHANGED <<now, sortedSet, mu, maxValuesCount, ttlDuration, dedupeDuration, options, calls, inserted>>

\* ------------------------------------------------------------------ New
\* the sorted set PopulateSetFromDB builds from the store d: every key of the
\* store gets a node, with the score removeScoreBytes reads from its value
PopulateSetFromDB(d) ==
    {[key |-> k, score |-> removeScoreBytes(d[k]).score] : k \in DOMAIN d}

\* removeScoreBytes panics on a value of the store d
PopulateSetFromDBPanics(d) == \E k \in DOMAIN d : removeScoreBytesPanics(d[k])

\* the process starts again on the same store: New, with the same options
New ==
    /\ Alive
    /\ Quiescent
    /\ calls < MaxCalls
    /\ calls' = calls + 1
    /\ mu' = NoThread
    /\ IF PopulateSetFromDBPanics(db)
       THEN /\ sortedSet' = {}
            /\ ret' = [NoRet EXCEPT !.op = "new", !.err = "panic", !.at = now]
       ELSE /\ sortedSet' = PopulateSetFromDB(db)
            /\ ret' = [NoRet EXCEPT !.op = "new", !.at = now]
    /\ inserted' = << >>
    /\ UNCHANGED <<now, db, expiresAt, maxValuesCount, ttlDuration, dedupeDuration, options, call, enqueued, seen>>

\* ------------------------------------------------------------------ specifications
\* the payloads, unique ids and limits of the calls of concurrent threads
ConcPayloads == {<<7>>}
ConcUniqueIDs == {NoUniqueID, <<1>>}

Step(t, P, U) ==
    \/ \E key \in Keys, value \in P, uid \in U :
           StoreToQueueBegin(t, key, value, uid)
    \/ StoreToQueueTxn(t)
    \/ StoreToQueueGet(t)
    \/ StoreToQueueAdd(t)
    \/ \E lim \in 0..MaxLimit : RetrieveFromQueueBegin(t, lim)
    \/ RetrieveFromQueuePop(t)
    \/ RetrieveFromQueueRemove(t)

\* threads call StoreToQueue and RetrieveFromQueue concurrently
Next == Tick(ConcMaxTime) \/ \E t \in Threads : Step(t, ConcPayloads, ConcUniqueIDs)

Spec == Init /\ [][Next]_vars

\* one call at a time: the calls of one thread
SeqThread == CHOOSE t \in Threads : TRUE

NextSeq == Tick(MaxTime) \/ Step(SeqThread, Payloads, UniqueIDs)

SpecSeq == Init /\ [][NextSeq]_vars

\* the process may start again between calls
NextRecovery == Tick(MaxTime) \/ Step(SeqThread, ConcPayloads, UniqueIDs) \/ New

SpecRecovery == Init /\ [][NextRecovery]_vars

\* a user key that is the store key of the marker of another user key: StoreToQueue
\* takes any string as item.Key and writes the main entry under the key itself
CollidingKey == DedupeKeyPrefix(UserKeys[1])

AllKeys == Keys \cup {CollidingKey}

\* one caller whose keys include the colliding one
NextCollide ==
    \/ Tick(MaxTime)
    \/ Step(SeqThread, ConcPayloads, UniqueIDs)
    \/ \E value \in ConcPayloads, uid \in UniqueIDs :
           StoreToQueueBegin(SeqThread, CollidingKey, value, uid)

SpecCollide == Init /\ [][NextCollide]_vars

\* one caller, and a store whose transactions may fail
NextFaults ==
    \/ Tick(MaxTime)
    \/ Step(SeqThread, ConcPayloads, ConcUniqueIDs)
    \/ StoreToQueueTxnFails(SeqThread)
    \/ RetrieveFromQueueRemoveFails(SeqThread)

SpecFaults == Init /\ [][NextFaults]_vars

\* the durations a Compactor starts with: no option applied
NoDurations == [ttlDuration |-> 0, dedupeDuration |-> 0]

\* WithTTL(ttlDuration) applied to b
WithTTL(b, ttl) == [b EXCEPT !.ttlDuration = ttl]

\* WithDedupeDuration(ttlDuration) applied to b
WithDedupeDuration(b, ttl) == [b EXCEPT !.ttlDuration = ttl]

\* New applies the options o to the Compactor
Configured(o) ==
    LET b1 == IF o.ttl # 0 THEN WithTTL(NoDurations, o.ttl) ELSE NoDurations
    IN  IF o.dedupe # 0 THEN WithDedupeDuration(b1, o.dedupe) ELSE b1

\* New with no duration option, with WithTTL alone, with WithDedupeDuration alone
OptionSets ==
    {NoOptions, [ttl |-> TTLTicks, dedupe |-> 0], [ttl |-> 0, dedupe |-> TTLTicks]}

InitTTL ==
    /\ now = 0
    /\ db = << >>
    /\ sortedSet = {}
    /\ mu = NoThread
    /\ maxValuesCount \in {0, MaxCount}
    /\ call = [t \in Threads |-> Idle]
    /\ ret = NoRet
    /\ calls = 0
    /\ enqueued = << >>
    /\ inserted = << >>
    /\ seen = [t \in Threads |-> NoSeen]
    /\ options \in OptionSets
    /\ ttlDuration = Configured(options).ttlDuration
    /\ dedupeDuration = Configured(options).dedupeDuration
    /\ expiresAt = << >>

\* one caller of a Compactor made with duration options
NextTTL == Tick(MaxTime) \/ Step(SeqThread, ConcPayloads, ConcUniqueIDs)

SpecTTL == InitTTL /\ [][NextTTL]_vars

\* the codec alone: appendScoreBytes on a payload and a score, then removeScoreBytes
\* on its result.  The scores are those of the int64 range that fit the integers
\* of the model checker; the payloads include some that look like a score.
CodecScores == {-2147483647, -65536, -257, -256, -1, 0, 1, 255, 256, 65535, 2147483647}
CodecPayloads ==
    {<<>>, <<0>>, <<255>>, <<7, 0>>, <<1, 2, 3, 4, 5, 6, 7, 8>>,
     <<0, 0, 0, 0, 0, 0, 0, 0, 0>>, <<255, 255, 255, 255, 255, 255, 255, 255>>}
CodecKey == UserKeys[1]

InitCodec ==
    /\ now = 0
    /\ db = << >>
    /\ sortedSet = {}
    /\ mu = NoThread
    /\ maxValuesCount = 0
    /\ \E p \in CodecPayloads, sc \in CodecScores :
           call = [t \in Threads |->
                     IF t = SeqThread
                     THEN [Idle EXCEPT !.pc = "codec",
                                       !.item = [key |-> CodecKey, value |-> p,
                                                 uid |-> NoUniqueID, score |-> sc]]
                     ELSE Idle]
    /\ ret = NoRet
    /\ calls = 0
    /\ enqueued = << >>
    /\ inserted = << >>
    /\ seen = [t \in Threads |-> NoSeen]
    /\ ttlDuration = 0
    /\ dedupeDuration = 0
    /\ expiresAt = << >>
    /\ options = NoOptions

\* value := appendScoreBytes(item.Value, item.score), kept under the key
AppendScoreBytes ==
    /\ call[SeqThread].pc = "codec"
    /\ CodecKey \notin DOMAIN db
    /\ db' = SetEntry(db, CodecKey, appendScoreBytes(call[SeqThread].item.value,
                                                      call[SeqThread].item.score))
    /\ UNCHANGED <<now, expiresAt, sortedSet, mu, maxValuesCount, ttlDuration, dedupeDuration, options, call, ret, calls, enqueued,
                   inserted, seen>>

\* score, strippedValue := removeScoreBytes(value)
RemoveScoreBytes ==
    /\ call[SeqThread].pc = "codec"
    /\ CodecKey \in DOMAIN db
    /\ ret.op = "none"
    /\ ret' = IF removeScoreBytesPanics(db[CodecKey])
              THEN [NoRet EXCEPT !.op = "codec", !.err = "panic"]
              ELSE [NoRet EXCEPT
                      !.op = "codec",
                      !.items = <<[key |-> CodecKey,
                                   value |-> removeScoreBytes(db[CodecKey]).value,
                                   uid |-> NoUniqueID,
                                   score |-> removeScoreBytes(db[CodecKey]).score]>>]
    /\ UNCHANGED <<now, db, expiresAt, sortedSet, mu, maxValuesCount, ttlDuration, dedupeDuration, options, call, calls, enqueued,
                   inserted, seen>>

NextCodec == AppendScoreBytes \/ RemoveScoreBytes

SpecCodec == InitCodec /\ [][NextCodec]_vars

\* ------------------------------------------------------------------ claims
Dequeuing == {t \in Threads : call[t].pc = "deq_rm"}
Released == ret.op = "deq" /\ ret.err = "nil"

C2_NoReleaseBeforeDeadlineSecond ==
    /\ \A t \in Dequeuing :
           ~call[t].overflow =>
               \A i \in 1..Len(call[t].nodes) :
                   /\ call[t].nodes[i].score <= Unix(call[t].clock)
                   /\ seen[t].first[i] >= 0 =>
                          Unix(call[t].clock) >= Unix(seen[t].first[i] + BufferTicks)
    /\ maxValuesCount = 0 => \A t \in Threads : ~call[t].overflow

\* a call on the time branch has selected a node that a StoreToQueue added
C2_Witness ==
    \E t \in Dequeuing :
        /\ maxValuesCount = 0
        /\ ~call[t].overflow
        /\ \E i \in 1..Len(call[t].nodes) : seen[t].first[i] >= 0

\* C2, as stated: no key is selected on the time branch before t0 + bufferDuration
C2_NoReleaseBeforeDeadline ==
    \A t \in Dequeuing :
        ~call[t].overflow =>
            \A i \in 1..Len(call[t].nodes) :
                seen[t].first[i] >= 0 =>
                    call[t].clock >= seen[t].first[i] + BufferTicks

\* C3: with maxValuesCount = 0, a RetrieveFromQueue called after every call has
\* returned and bufferDuration has passed since, with a limit of at least the
\* number of keys owed, succeeds and returns one item for each key owed.
C3_NoLossNoDuplication ==
    (ret.op = "deq" /\ ret.seen.owed.ok /\ maxValuesCount = 0) =>
        /\ ret.err = "nil"
        /\ Len(ret.items) = Cardinality(ret.seen.owed.keys)
        /\ KeysOf(ret.items) = ret.seen.owed.keys

\* C4: a StoreToQueue called when maxValuesCount is not 0 and the sorted set holds
\* at least maxValuesCount nodes returns ErrMaxValueCount and changes neither the
\* sorted set nor the store.
C4_CapacityRejection ==
    [][\A t \in Threads :
          (/\ \E key \in Keys, value \in Payloads, uid \in UniqueIDs :
                  StoreToQueueBegin(t, key, value, uid)
           /\ maxValuesCount # 0
           /\ Cardinality(sortedSet) >= maxValuesCount)
          => /\ ret'.op = "enq"
             /\ ret'.err = "ErrMaxValueCount"
             /\ call'[t] = Idle
             /\ UNCHANGED <<db, sortedSet>>]_vars

\* a StoreToQueue with a unique id, of a key that is in the sorted set, was rejected
C4_Witness ==
    /\ ret.op = "enq"
    /\ ret.err = "ErrMaxValueCount"
    /\ ret.of.item.uid # NoUniqueID
    /\ GetByKey(sortedSet, ret.of.item.key) # {}
    /\ DedupeKeyPrefix(ret.of.item.key) \in DOMAIN db

\* C5: a RetrieveFromQueue with a limit of 1 or more that takes the max-count
\* branch returns the min(limit, count) lowest nodes of the sorted set, each with
\* the payload stored last, and no returned key is left in sorted set or store.
C5_OverflowRelease ==
    (ret.op = "deq" /\ ret.of.overflow /\ ret.of.limit >= 1) =>
        /\ ret.err = "nil"
        /\ Len(ret.items) = Min(ret.of.limit, ret.seen.count)
        /\ \A i \in 1..Len(ret.items) :
               /\ ret.items[i].key = ret.of.nodes[i].key
               /\ ret.items[i].value = ret.seen.last[i].value
               /\ \A n \in sortedSet : NodeLess(ret.of.nodes[i], n)
               /\ ret.items[i].key \notin DOMAIN db

\* C6: the steps of a StoreToQueue whose transaction takes the dedupe exit change
\* neither the store nor the sorted set, and the call returns nil.
Suppressed(t) ==
    \/ call[t].pc = "enq_txn" /\ Deduped(db, call[t].item)
    \/ call[t].pc \in {"enq_get", "enq_add"} /\ call[t].deduped

C6_DedupSuppressionChangesNothing ==
    [][\A t \in Threads :
          (Suppressed(t) /\ call'[t] # call[t])
          => /\ UNCHANGED <<db, sortedSet>>
             /\ call'[t].pc = "idle" => ret'.err = "nil"]_vars

\* C7: after a StoreToQueue with a unique id that did not take the dedupe exit has
\* returned nil, the marker of its key holds the unique id, the store holds its
\* payload for the key and the key is in the sorted set; and a key whose
\* StoreToQueue calls were all admitted is released as one item, with the payload
\* of the last of them.
C7_DedupRefresh ==
    /\ (/\ ret.op = "enq"
        /\ ret.err = "nil"
        /\ ret.of.item.uid # NoUniqueID
        /\ ~ret.of.deduped)
       => LET k == ret.of.item.key
          IN  /\ DedupeKeyPrefix(k) \in DOMAIN db
              /\ db[DedupeKeyPrefix(k)] = ret.of.item.uid
              /\ k \in DOMAIN db
              /\ ~removeScoreBytesPanics(db[k])
              /\ removeScoreBytes(db[k]).value = ret.of.item.value
              /\ GetByKey(sortedSet, k) # {}
    /\ Released =>
           \A i \in 1..Len(ret.items) :
               (ret.seen.last[i].n >= 1 /\ ret.seen.last[i].admitted
                    /\ ~ret.seen.last[i].plain)
               => /\ ret.items[i].value = ret.seen.last[i].value
                  /\ \A j \in 1..Len(ret.items) :
                         ret.items[j].key = ret.items[i].key => j = i

\* a key enqueued with one unique id and then with another was released
C7_Witness ==
    /\ Released
    /\ \E i \in 1..Len(ret.items) :
           ret.seen.last[i].refreshed /\ ret.seen.last[i].admitted

\* C8: New leaves a sorted set that holds exactly the user keys of the store, each
\* with the score of its stored value, and does not fail.
C8_Recovery ==
    ret.op = "new" =>
        /\ ret.err = "nil"
        /\ sortedSet = {[key |-> k, score |-> removeScoreBytes(db[k]).score] :
                           k \in DOMAIN db \cap Keys}

\* C9: a thread that is at an access to the sorted set holds the lock, and no two
\* threads are at an access to the sorted set at the same time.
AtIndexAccess == {t \in Threads : call[t].pc \in {"enq_get", "enq_add", "deq_pop"}}

C9_IndexAccessUnderLock ==
    /\ \A t \in AtIndexAccess : mu = t
    /\ Cardinality(AtIndexAccess) <= 1

\* C10, as amended: a key that two RetrieveFromQueue calls in progress have both
\* selected was put into the sorted set again by a StoreToQueue after the first
\* selected it; and every item a call reads from the store was stored by a
\* StoreToQueue since the key was last released.
C10_DisjointUnlessReinserted ==
    /\ \A t, u \in Dequeuing :
           t # u => (KeysOf(call[t].nodes) \cap KeysOf(call[u].nodes))
                        \subseteq (seen[t].stale \cup seen[u].stale)
    /\ \A t \in Dequeuing :
           \A i \in 1..Len(seen[t].last) : seen[t].last[i].stored
    /\ Released => \A i \in 1..Len(ret.seen.last) : ret.seen.last[i].stored

\* two calls in progress have each selected a key
C10_Witness ==
    \E t, u \in Dequeuing :
        /\ t # u
        /\ KeysOf(call[t].nodes) \cap KeysOf(call[u].nodes) = {}

\* C10, as stated: two calls in progress have selected disjoint sets of keys
C10_DisjointSelections ==
    \A t, u \in Dequeuing :
        t # u => KeysOf(call[t].nodes) \cap KeysOf(call[u].nodes) = {}

\* C11: a RetrieveFromQueue with a limit of 1 or more that returns nil returns at
\* most limit items, one for each node it selected and in the order of the nodes,
\* which ascend by (score, key) on either branch; and every node left in the
\* sorted set that the call could have selected comes after every node it returned.
Eligible(n, c) == c.overflow \/ n.score <= Unix(c.clock)

C11_ReleaseOrder ==
    (Released /\ ret.of.limit >= 1) =>
        /\ Len(ret.items) <= ret.of.limit
        /\ Len(ret.items) = Len(ret.of.nodes)
        /\ \A i \in 1..Len(ret.items) : ret.items[i].key = ret.of.nodes[i].key
        /\ \A i, j \in 1..Len(ret.of.nodes) :
               i < j => NodeLess(ret.of.nodes[i], ret.of.nodes[j])
        /\ \A n \in sortedSet :
               Eligible(n, ret.of) =>
                   \A i \in 1..Len(ret.of.nodes) : NodeLess(ret.of.nodes[i], n)

\* two items were returned, the one of the higher key first for its lower score
C11_Witness ==
    /\ Released
    /\ Len(ret.items) = 2
    /\ KeyRank(ret.items[1].key) > KeyRank(ret.items[2].key)
    /\ ret.of.nodes[1].score < ret.of.nodes[2].score

\* C12: when a RetrieveFromQueue has returned nil with an item for a key, and no
\* StoreToQueue of the key was in progress during the call or began after it,
\* neither the sorted set nor the store holds the key.
C12_RemovedEverywhere ==
    Released =>
        \A i \in 1..Len(ret.items) :
            ret.items[i].key \notin ret.seen.during
            => /\ GetByKey(sortedSet, ret.items[i].key) = {}
               /\ ret.items[i].key \notin DOMAIN db

\* a key was returned with no StoreToQueue of it during the call; its marker remains
C12_Witness ==
    /\ Released
    /\ \E i \in 1..Len(ret.items) :
           /\ ret.items[i].key \notin ret.seen.during
           /\ DedupeKeyPrefix(ret.items[i].key) \in DOMAIN db

\* C13: appendScoreBytes(p, s) is p followed by 8 bytes, the first of them the low
\* byte of s, and removeScoreBytes of it gives back the score s and the payload p.
C13_CodecRoundTrip ==
    LET p == call[SeqThread].item.value
        sc == call[SeqThread].item.score
    IN  call[SeqThread].pc = "codec" =>
            /\ CodecKey \in DOMAIN db =>
                   /\ Len(db[CodecKey]) = Len(p) + 8
                   /\ SubSeq(db[CodecKey], 1, Len(p)) = p
                   /\ sc >= 0 => db[CodecKey][Len(p) + 1] = sc % 256
            /\ ret.op = "codec" =>
                   /\ ret.err = "nil"
                   /\ ret.items[1].score = sc
                   /\ ret.items[1].value = p

\* the empty payload with a negative score went through the codec
C13_Witness ==
    /\ ret.op = "codec"
    /\ call[SeqThread].item.value = <<>>
    /\ call[SeqThread].item.score < 0

\* C14: a RetrieveFromQueue with a limit of 0 changes neither the store nor the
\* sorted set, on either branch, and returns nil with no items.
C14_LimitZero ==
    [][\A t \in Threads :
          /\ (call[t].pc = "idle" /\ call'[t].pc = "deq_pop" /\ call'[t].limit = 0)
             => UNCHANGED <<db, sortedSet>>
          /\ (call[t].pc = "deq_pop" /\ call[t].limit = 0 /\ call'[t] # call[t])
             => /\ UNCHANGED <<db, sortedSet>>
                /\ call'[t] = Idle
                /\ ret'.op = "deq"
                /\ ret'.err = "nil"
                /\ ret'.items = <<>>]_vars

\* a call with a limit of 0 took the max-count branch and returned, with a node
\* past its deadline in the sorted set
C14_Witness ==
    /\ ret.op = "deq"
    /\ ret.of.limit = 0
    /\ ret.of.overflow
    /\ \E n \in sortedSet : n.score <= Unix(ret.of.clock)

\* C15: when no call is in progress, every key of the sorted set has a main entry
\* in the store.
C15_IndexStoreConsistency ==
    Quiescent => \A n \in sortedSet : n.key \in DOMAIN db

\* C16: with maxValuesCount not 0, the sorted set never holds more than
\* maxValuesCount nodes.
C16_CapacityBound ==
    maxValuesCount # 0 => GetCount(sortedSet) <= maxValuesCount

\* C17: when no call is in progress, the sorted set holds as many nodes as the
\* store holds main entries.
C17_IndexSizeEqualsStoreSize ==
    (Quiescent /\ Alive) => GetCount(sortedSet) = Cardinality(DOMAIN db \cap Keys)

\* C18: a step of a StoreToQueue whose key has a node in the sorted set leaves the
\* node as it is, and the score of the node of a key is never later than the Unix
\* second of t0 + bufferDuration, t0 being the time of the first StoreToQueue of
\* the key since it was last released (keys that a RetrieveFromQueue in progress
\* has selected are on their way out, and left aside).
C18_FirstDeadlineKept ==
    [][/\ \A t \in Threads :
             (/\ call[t].pc \in {"enq_txn", "enq_get", "enq_add"}
              /\ call'[t] # call[t]
              /\ GetByKey(sortedSet, call[t].item.key) # {})
             => GetByKey(sortedSet', call[t].item.key)
                    = GetByKey(sortedSet, call[t].item.key)
       /\ \A n \in sortedSet' :
             (/\ n.key \in DOMAIN enqueued'
              /\ \A u \in Threads : n.key \notin KeysOf(call'[u].nodes))
             => n.score <= Unix(enqueued'[n.key].at + BufferTicks)]_vars

\* the score in the value the store holds for key k
StoredScore(k) == removeScoreBytes(db[k]).score

\* the nodes of the sorted set whose key has a value with a score in the store
Scored == {n \in sortedSet : n.key \in DOMAIN db /\ ~removeScoreBytesPanics(db[n.key])}

Changed(x) ==
    \/ (x \in DOMAIN db) # (x \in DOMAIN db')
    \/ x \in DOMAIN db /\ x \in DOMAIN db' /\ db'[x] # db[x]

\* thread t commits the transaction of a StoreToQueue of key k
Writes(t, k) == call[t].pc = "enq_txn" /\ call[t].item.key = k

\* thread t runs RemoveFromDB on key k
Removes(t, k) ==
    /\ call[t].pc = "deq_rm"
    /\ call[t].nodes[Len(call[t].response) + 1].key = k

\* C20: no store key is both the main key of one user key and the marker key of
\* another: the store changes at the marker key of a user key k only in the
\* transaction of a StoreToQueue of k, and at the main key of a buffered key k only
\* in that transaction or in a RemoveFromDB of k.
C20_DisjointKeySpaces ==
    [][\A k \in AllKeys :
          /\ Changed(DedupeKeyPrefix(k)) => \E t \in Threads : Writes(t, k)
          /\ (k \in DOMAIN enqueued /\ Changed(k))
             => \E t \in Threads : Writes(t, k) \/ Removes(t, k)]_vars

\* thread t returns from RetrieveFromQueue with an error in this step
DequeueFails(t) ==
    /\ call[t].pc = "deq_rm"
    /\ call'[t].pc = "idle"
    /\ ret'.op = "deq"
    /\ ret'.err \notin {"nil", "panic"}

\* C21: a step in which RetrieveFromQueue returns an error leaves the store as it
\* was, the keys of the sorted set are then the main keys of the store, and the
\* call had deleted no entry before.
C21_FailedDequeueInSync ==
    [][\A t \in Threads :
          DequeueFails(t)
          => /\ db' = db
             /\ {n.key : n \in sortedSet'} = DOMAIN db' \cap Keys
             /\ call[t].response = <<>>]_vars

\* thread t returns from StoreToQueue with the error of db.Update in this step
EnqueueFails(t) ==
    /\ call[t].pc = "enq_txn"
    /\ call'[t].pc = "idle"
    /\ ret'.op = "enq"
    /\ ret'.err = "StoreError"

\* C22: a step in which db.Update of StoreToQueue fails returns the error and
\* leaves the store, markers included, and the sorted set as they were.
C22_FailedEnqueueChangesNothing ==
    [][\A t \in Threads :
          EnqueueFails(t)
          => /\ ret'.of.item = call[t].item
             /\ db' = db
             /\ sortedSet' = sortedSet]_vars

\* a StoreToQueue with a unique id has failed on a key that has neither a marker
\* nor a node
C22_Witness ==
    /\ ret.op = "enq"
    /\ ret.err = "StoreError"
    /\ ret.of.item.uid # NoUniqueID
    /\ DedupeKeyPrefix(ret.of.item.key) \notin DOMAIN db
    /\ ret.of.item.key \notin DOMAIN db
    /\ GetByKey(sortedSet, ret.of.item.key) = {}

\* thread t runs RemoveFromDB on a key whose value is too short to hold a score, and
\* the transaction succeeds
DecodesShort(t, k) ==
    /\ Removes(t, k)
    /\ k \in DOMAIN db
    /\ removeScoreBytesPanics(db[k])
    /\ call'[t] # call[t]
    /\ ret'.err # "StoreError"

\* C23: RemoveFromDB of a key whose value is shorter than 8 bytes makes
\* RetrieveFromQueue return a decode error and leaves the key in the store, and
\* New on a store with such a value returns a decode error; neither panics.
C23_DecodeFailureReported ==
    [][/\ \A t \in Threads, k \in StoreKeys :
             DecodesShort(t, k)
             => /\ ret'.op = "deq"
                /\ ret'.err = "Decode"
                /\ k \in DOMAIN db'
                /\ db'[k] = db[k]
       /\ (ret'.op = "new" /\ ret' # ret /\ PopulateSetFromDBPanics(db))
          => ret'.err = "Decode"]_vars

\* thread t commits a transaction of StoreToQueue that is not deduped
Stores(t) ==
    /\ call[t].pc = "enq_txn"
    /\ call'[t].pc = "enq_get"
    /\ ~Deduped(db, call[t].item)

\* C24: with WithDedupeDuration(D) alone, a StoreToQueue that writes gives the
\* marker the expiry second of now + D and the main entry none; with WithTTL(T)
\* alone it gives the main entry the expiry second of now + T and the marker none.
C24_OptionWiring ==
    [][\A t \in Threads :
          Stores(t) =>
             LET k == call[t].item.key
                 m == DedupeKeyPrefix(k)
                 marked == call[t].item.uid # NoUniqueID
             IN  /\ (options.dedupe # 0 /\ options.ttl = 0)
                    => /\ k \notin DOMAIN expiresAt'
                       /\ marked => /\ m \in DOMAIN expiresAt'
                                     /\ expiresAt'[m] = Unix(now + options.dedupe)
                 /\ (options.ttl # 0 /\ options.dedupe = 0)
                    => /\ k \in DOMAIN expiresAt'
                       /\ expiresAt'[k] = Unix(now + options.ttl)
                       /\ marked => m \notin DOMAIN expiresAt']_vars

\* C24, the half of WithTTL alone
C24_WithTTLAlone ==
    [][\A t \in Threads :
          (Stores(t) /\ options.ttl # 0 /\ options.dedupe = 0)
          => /\ call[t].item.key \in DOMAIN expiresAt'
             /\ expiresAt'[call[t].item.key] = Unix(now + options.ttl)
             /\ DedupeKeyPrefix(call[t].item.key) \notin DOMAIN expiresAt']_vars

====
